---- MODULE Spec2Model ----
(***************************************************************************)
(* Model of the learn-mcp demo: the MCP server (user store, tools,         *)
(* resources, sampling tool) and the interactive host driver.              *)
(*                                                                         *)
(* Text is modelled as token sequences, JSON documents as ordered          *)
(* property lists, so that formatting, parsing and substitution are        *)
(* computed the way the code computes them.                                *)
(***************************************************************************)
EXTENDS Integers, Sequences, FiniteSets, TLC

VARIABLES
    host,        \* which host is connected to the server
    file,        \* content of src/data/user.json
    call,        \* per in-flight tool call: handler position and locals
    created,     \* history: candidates of the createUser calls made one after another since the empty list
    readReq,     \* resources/read request in flight (a URI) or NoUri
    readResult,  \* outcome of the last resources/read
    resources,   \* the host's last resources/list answer
    dpc,         \* host driver: position in main()
    option,      \* host driver: the category selected at the top-level menu
    sent,        \* host driver: Session calls issued since the last top-level menu
    uri,         \* host driver: the argument of handleResource
    choice,      \* host driver: position of the entry picked at "Select a resource" (0: none)
    paramValues, \* host driver: the values entered for the placeholders of uri
    endCause,    \* host driver: why main() ended ("" while running)
    prompted     \* host: per sampling request, the operator's answer to the confirm and whether generateText was called

vars == <<host, file, call, created, readReq, readResult, resources, dpc, option, sent, uri, choice,
          paramValues, endCause, prompted>>

driverVars == <<dpc, option, sent, uri, choice, paramValues, endCause>>

(***************************************************************************)
(* Bounds                                                                  *)
(***************************************************************************)
\* the store holds at most this many users: a createUser call that would
\* exceed it is not started
MaxUsers == 2

\* tool calls the server can have in flight at once
Callers == {1, 2}

(***************************************************************************)
(* JavaScript values                                                       *)
(***************************************************************************)
Undef == [t |-> "undefined", n |-> 0, s |-> ""]
Null == [t |-> "null", n |-> 0, s |-> ""]
Num(n) == [t |-> "number", n |-> n, s |-> ""]
Str(s) == [t |-> "string", n |-> 0, s |-> s]
NaN == [t |-> "number", n |-> -1, s |-> "NaN"]

Prop(k, v) == [k |-> k, v |-> v]

\* o.k : the value of the first property named k, undefined when absent
GetProp(o, k) ==
    IF \E i \in 1..Len(o) : o[i].k = k
    THEN o[CHOOSE i \in 1..Len(o) : o[i].k = k /\ \A j \in 1..(i-1) : o[j].k # k].v
    ELSE Undef

\* typeof v === "string"
IsString(v) == v.t = "string"

\* a === b on primitives; NaN equals nothing
StrictEq(a, b) == a # NaN /\ b # NaN /\ a = b

(***************************************************************************)
(* Text: decimal numerals, URIs and model output are token sequences       *)
(***************************************************************************)
Dec == <<"1", "2", "3", "4", "5", "6", "7", "8", "9">>

\* `${n}` for the numbers a user id can take
ToStr(n) == Dec[n]

\* Number(s): "" and "0" are 0, a decimal numeral (leading zeros allowed) is its value,
\* anything else is NaN
NumberOf(s) ==
    IF s \in {"", "0"} THEN Num(0)
    ELSE IF \E n \in 1..Len(Dec) : s = Dec[n] \/ s = "0" \o Dec[n]
         THEN Num(CHOOSE n \in 1..Len(Dec) : s = Dec[n] \/ s = "0" \o Dec[n])
         ELSE NaN

(***************************************************************************)
(* The backing file and JSON                                               *)
(***************************************************************************)
\* the file is missing, holds text JSON.parse rejects (empty or garbage), or
\* holds the text of a JSON array of user objects
FileMissing == [kind |-> "missing", doc |-> <<>>]
FileUnparsable == [kind |-> "unparsable", doc |-> <<>>]
JsonText(doc) == [kind |-> "json", doc |-> doc]

\* fs.readFile(userDataPath, "utf-8") throws when the file is missing
ReadFileThrows(f) == f.kind = "missing"

\* JSON.parse(raw) throws on text that is not JSON
ParseThrows(raw) == raw.kind # "json"
JSONparse(raw) == raw.doc

\* JSON.stringify of one object: properties in insertion order, those whose
\* value is undefined left out
RECURSIVE StringifyObject(_)
StringifyObject(o) ==
    IF o = <<>> THEN <<>>
    ELSE IF Head(o).v = Undef THEN StringifyObject(Tail(o))
         ELSE <<Head(o)>> \o StringifyObject(Tail(o))

\* JSON.stringify(users, null, 2): the text of the whole array
JSONstringify(users) ==
    JsonText([i \in 1..Len(users) |-> StringifyObject(users[i])])

(***************************************************************************)
(* Store: createUser                                                       *)
(***************************************************************************)
\* mutant: email and password stored in each other's place
NewUser_Swapped(id, user) ==
    <<Prop("id", Num(id)),
      Prop("name", GetProp(user, "name")),
      Prop("email", GetProp(user, "password")),
      Prop("password", GetProp(user, "email"))>>

\* the object pushed by createUser
NewUser(id, user) ==
    <<Prop("id", Num(id)),
      Prop("name", GetProp(user, "name")),
      Prop("email", GetProp(user, "email")),
      Prop("password", GetProp(user, "password"))>>

\* mutant: the id is the length, not the length plus one
NextId_OffByOne(users) == Len(users)

\* const id = users.length + 1
NextId(users) == Len(users) + 1

\* mutant: the new record is appended to whatever the file holds now
WriteFile_Append(f, text) ==
    IF f.kind = "json" /\ text.doc # <<>>
    THEN JsonText(Append(f.doc, text.doc[Len(text.doc)]))
    ELSE text

\* fs.writeFile(userDataPath, text): the file is replaced by the text
WriteFile(f, text) == text

\* the arguments the create-user tool accepts (name, email, password strings)
Candidate(name, email, password) ==
    <<Prop("name", Str(name)), Prop("email", Str(email)), Prop("password", Str(password))>>
CandAnn == Candidate("Ann", "ann@x.com", "p1")
CandBob == Candidate("Bob", "bob@x.com", "p2")
Candidates == {CandAnn, CandBob}

(***************************************************************************)
(* Resources                                                               *)
(***************************************************************************)
NoUri == <<>>
UsersAllUri == <<"users://all">>
ProfileTemplate == <<"users://", "{id}", "/profile">>
\* `users://${x}/profile`
ProfileUri(x) == <<"users://", x, "/profile">>

\* what a resources/read ends in: a contents payload (text, a JSON array or a
\* single JSON object), or the handler threw, or no resource matched the URI
Contents(isArray, doc) == [kind |-> "contents", array |-> isArray, doc |-> doc]
HandlerThrew == [kind |-> "throw", array |-> FALSE, doc |-> <<>>]
NoSuchResource == [kind |-> "no-resource", array |-> FALSE, doc |-> <<>>]
NoResult == [kind |-> "none", array |-> FALSE, doc |-> <<>>]

UserNotFound == <<Prop("error", Str("User not found"))>>

\* read handler of "users" (users://all)
UsersRead(f) ==
    IF ReadFileThrows(f) \/ ParseThrows(f) THEN HandlerThrew
    ELSE Contents(TRUE, JSONstringify(JSONparse(f)).doc)

\* users.find(u => u.id === Number(variables.id))
FindUser(users, idText) ==
    LET hit(i) == StrictEq(GetProp(users[i], "id"), NumberOf(idText))
    IN  IF \E i \in 1..Len(users) : hit(i)
        THEN <<users[CHOOSE i \in 1..Len(users) : hit(i) /\ \A j \in 1..(i-1) : ~hit(j)]>>
        ELSE <<>>

\* mutant: an absent user makes the handler throw
GetUserRead_Throws(f, idText) ==
    IF ReadFileThrows(f) \/ ParseThrows(f) THEN HandlerThrew
    ELSE LET user == FindUser(JSONparse(f), idText)
         IN  IF user = <<>> THEN HandlerThrew
             ELSE Contents(FALSE, <<StringifyObject(user[1])>>)

\* read handler of "get-user" (users://{id}/profile)
GetUserRead(f, idText) ==
    IF ReadFileThrows(f) \/ ParseThrows(f) THEN HandlerThrew
    ELSE LET user == FindUser(JSONparse(f), idText)
         IN  IF user = <<>> THEN Contents(FALSE, <<UserNotFound>>)
             ELSE Contents(FALSE, <<StringifyObject(user[1])>>)

\* the registered templates matched against a requested URI, in registration
\* order; {id} matches one non-empty path segment
ReadResource(u, f) ==
    IF u = UsersAllUri THEN UsersRead(f)
    ELSE IF Len(u) = 3 /\ u[1] = "users://" /\ u[3] = "/profile" /\ u[2] # ""
         THEN GetUserRead(f, u[2])
         ELSE NoSuchResource

\* list callback of "users"
UsersList(f) == <<UsersAllUri>>

\* users[0]?.id ?? 1
FirstId(users) ==
    IF users = <<>> THEN Num(1)
    ELSE IF GetProp(users[1], "id") \in {Undef, Null} THEN Num(1)
         ELSE GetProp(users[1], "id")

\* list callback of "get-user"
GetUserList(f) ==
    IF ReadFileThrows(f) \/ ParseThrows(f) THEN <<>>
    ELSE <<ProfileUri(ToStr(FirstId(JSONparse(f)).n))>>

\* resources/list: the list callbacks of every template, in registration order
ListResources(f) == UsersList(f) \o GetUserList(f)

\* resources/templates/list
ListResourceTemplates == <<UsersAllUri, ProfileTemplate>>

(***************************************************************************)
(* create-random-user: the model's text and its parsing                    *)
(***************************************************************************)
\* tokens of a model response: whitespace, the fence, a language tag, and
\* one token per JSON (or non-JSON) body
Whitespace == {" ", "\n"}
\* the token standing for the three-backtick fence
Fence == "<fence>"
JsonTags == {"json", "JSON"}

\* the value a body token parses to
Object(o) == [t |-> "object", o |-> o]
NullValue == [t |-> "null", o |-> <<>>]
NotJson == [t |-> "syntax-error", o |-> <<>>]

BodyFull == "{name,email,password}"
BodyReordered == "{password,email,name}"
BodyNoPassword == "{name,email}"
BodyNumericPassword == "{name,email,password:123}"
BodyNull == "null"
BodyProse == "Here is the profile"
Bodies == {BodyFull, BodyReordered, BodyNoPassword, BodyNumericPassword, BodyNull, BodyProse}

BodyValue(b) ==
    CASE b = BodyFull -> Object(CandAnn)
      [] b = BodyReordered ->
            Object(<<Prop("password", Str("p2")), Prop("email", Str("bob@x.com")), Prop("name", Str("Bob"))>>)
      [] b = BodyNoPassword ->
            Object(<<Prop("name", Str("Ann")), Prop("email", Str("ann@x.com"))>>)
      [] b = BodyNumericPassword ->
            Object(<<Prop("name", Str("Ann")), Prop("email", Str("ann@x.com")), Prop("password", Num(123))>>)
      [] b = BodyNull -> NullValue
      [] OTHER -> NotJson

\* String.prototype.trim on tokens
RECURSIVE TrimStart(_)
TrimStart(t) == IF t # <<>> /\ Head(t) \in Whitespace THEN TrimStart(Tail(t)) ELSE t
RECURSIVE TrimEnd(_)
TrimEnd(t) ==
    IF t # <<>> /\ t[Len(t)] \in Whitespace THEN TrimEnd(SubSeq(t, 1, Len(t) - 1)) ELSE t
Trim(t) == TrimEnd(TrimStart(t))

\* mutant: the tag is matched case-sensitively (no i flag)
StripOpeningFence_CaseSensitive(t) ==
    IF t # <<>> /\ Head(t) = Fence
    THEN LET rest == Tail(t)
         IN  TrimStart(IF rest # <<>> /\ Head(rest) = "json" THEN Tail(rest) ELSE rest)
    ELSE t

\* .replace(/^```(?:json)?\s*/i, "")
StripOpeningFence(t) ==
    IF t # <<>> /\ Head(t) = Fence
    THEN LET rest == Tail(t)
         IN  TrimStart(IF rest # <<>> /\ Head(rest) \in JsonTags THEN Tail(rest) ELSE rest)
    ELSE t

\* .replace(/\s*```$/, "")
StripClosingFence(t) ==
    IF t # <<>> /\ t[Len(t)] = Fence THEN TrimEnd(SubSeq(t, 1, Len(t) - 1)) ELSE t

\* const cleaned = modelText.trim().replace(...).replace(...).trim()
Clean(modelText) == Trim(StripClosingFence(StripOpeningFence(Trim(modelText))))

\* JSON.parse(cleaned): one body token, optionally surrounded by whitespace
ParseModelJson(cleaned) ==
    LET inner == Trim(cleaned)
    IN  IF Len(inner) = 1 /\ inner[1] \in Bodies THEN BodyValue(inner[1]) ELSE NotJson

\* mutant: the password is not checked
FieldsMissing_NoPassword(fakeUser) ==
    \/ fakeUser.t = "null"
    \/ ~IsString(GetProp(fakeUser.o, "name"))
    \/ ~IsString(GetProp(fakeUser.o, "email"))

\* !fakeUser || typeof fakeUser.name !== "string" || ... email ... || ... password ...
FieldsMissing(fakeUser) ==
    \/ fakeUser.t = "null"
    \/ ~IsString(GetProp(fakeUser.o, "name"))
    \/ ~IsString(GetProp(fakeUser.o, "email"))
    \/ ~IsString(GetProp(fakeUser.o, "password"))

\* what a sampling/createMessage request ends in, as the tool handler sees it:
\* rejected, or a response whose content is an array of blocks, a single
\* block, or absent
Rejected(why) == [shape |-> "rejected", text |-> <<>>, why |-> why]
ContentArray(text) == [shape |-> "array", text |-> text, why |-> ""]
ContentArrayNoText == [shape |-> "array-no-text", text |-> <<>>, why |-> ""]
ContentObject(text) == [shape |-> "object", text |-> text, why |-> ""]
ContentAbsent == [shape |-> "absent", text |-> <<>>, why |-> ""]
NoResponse == [shape |-> "none", text |-> <<>>, why |-> ""]

\* typeof response.content[0]?.text === "string"
HasModelText(response) == response.shape = "array"

\* tool results (the text of the one content block, and the id it mentions)
Result(msg, id) == [msg |-> msg, id |-> id]
NoResultYet == Result("", 0)
CreatedUser(id) == Result("Created user: ", id)
UserCreatedSuccessfully(id) == Result("User created successfully", id)
FailedToCreateUser == Result("Failed to create user: ", 0)
ModelCallFailed == Result("Model call failed: ", 0)
NoTextReturned == Result("Failed to generate fake user profile (no text returned)", 0)
FailedToParse == Result("Failed to parse model output as JSON: ", 0)
MissingRequiredFields == Result("Model output is missing required fields: name, email, password", 0)
ToolThrew == Result("uncaught exception in tool handler", 0)

\* mutant: the request is not wrapped in try/catch
RandomUserCheck_NoCatch(response) ==
    IF response.shape \in {"rejected", "absent"} THEN ToolThrew
    ELSE IF ~HasModelText(response) THEN NoTextReturned
    ELSE LET fakeUser == ParseModelJson(Clean(response.text))
         IN  IF fakeUser = NotJson THEN FailedToParse
             ELSE IF FieldsMissing(fakeUser) THEN MissingRequiredFields
             ELSE NoResultYet

\* the create-random-user handler from the arrival of the sampling outcome up
\* to the call of createUser: the result it returns, or NoResultYet when it
\* goes on to createUser(fakeUser)
RandomUserCheck(response) ==
    IF response.shape = "rejected" THEN ModelCallFailed
    ELSE IF response.shape = "absent" THEN ToolThrew
    ELSE IF ~HasModelText(response) THEN NoTextReturned
    ELSE LET fakeUser == ParseModelJson(Clean(response.text))
         IN  IF fakeUser = NotJson THEN FailedToParse
             ELSE IF FieldsMissing(fakeUser) THEN MissingRequiredFields
             ELSE NoResultYet

(***************************************************************************)
(* Server: tool calls                                                      *)
(***************************************************************************)
\* the host has not been asked to sample for this call
NotPrompted == [run |-> "none", invoked |-> FALSE]

\* a tool call's position and the handler's locals
NoCall ==
    [pc |-> "idle", tool |-> "", user |-> <<>>, raw |-> FileMissing, users |-> <<>>,
     id |-> 0, response |-> NoResponse, result |-> NoResultYet]

\* the handler has returned `result`; its locals are gone
Returned(result) == [NoCall EXCEPT !.pc = "returned", !.result = result]

InCreateUser(p) == call[p].pc \in {"readFile", "writeFile"}

\* history: a createUser call entered while another is in progress ends the
\* run of one-after-another calls
NoteEntry(p) ==
    IF \E q \in Callers \ {p} : InCreateUser(q)
    THEN [ok |-> FALSE, calls |-> <<>>]
    ELSE created

\* tools/call create-user: the handler calls createUser(args), which starts
\* reading the file
CreateUserTool(p, args) ==
    /\ call[p].pc \in {"idle", "returned"}
    /\ call' = [call EXCEPT ![p] = [NoCall EXCEPT !.pc = "readFile", !.tool = "create-user", !.user = args]]
    /\ created' = NoteEntry(p)
    /\ prompted' = [prompted EXCEPT ![p] = NotPrompted]

\* tools/call create-random-user: the handler sends sampling/createMessage
CreateRandomUserTool(p) ==
    /\ call[p].pc \in {"idle", "returned"}
    /\ call' = [call EXCEPT ![p] = [NoCall EXCEPT !.pc = "sampling", !.tool = "create-random-user"]]
    /\ prompted' = [prompted EXCEPT ![p] = NotPrompted]
    /\ UNCHANGED created

\* the sampling request settles: the handler's await resumes with `response`
\* or with a rejection
SamplingSettles(p, response) ==
    /\ call[p].pc = "sampling"
    /\ call' = [call EXCEPT ![p].pc = "gotResponse", ![p].response = response]

\* create-random-user after the await: steps 2 to 4, then createUser(fakeUser)
RandomUserContinue(p) ==
    /\ call[p].pc = "gotResponse"
    /\ LET r == RandomUserCheck(call[p].response)
       IN  IF r = NoResultYet
           THEN /\ call' = [call EXCEPT ![p].pc = "readFile",
                                        ![p].user = ParseModelJson(Clean(call[p].response.text)).o]
                /\ created' = NoteEntry(p)
           ELSE /\ call' = [call EXCEPT ![p] = Returned(r)]
                /\ UNCHANGED created
    /\ UNCHANGED <<host, prompted, file, readReq, readResult, resources, driverVars>>

\* createUser: readFile resolves; parse, compute the id, push
CreateUserRead(p) ==
    /\ call[p].pc = "readFile"
    /\ IF ReadFileThrows(file) \/ ParseThrows(file)
       THEN call' = [call EXCEPT ![p] = Returned(FailedToCreateUser)]
       ELSE /\ Len(JSONparse(file)) < MaxUsers
            /\ LET users == JSONparse(file)
                   id == NextId(users)
               IN  call' = [call EXCEPT ![p].pc = "writeFile", ![p].raw = file, ![p].id = id,
                                        ![p].users = Append(users, NewUser(id, call[p].user))]
    /\ UNCHANGED <<host, prompted, file, created, readReq, readResult, resources, driverVars>>

\* the text each tool returns for the id createUser returned
Success(tool, id) ==
    IF tool = "create-user" THEN CreatedUser(id) ELSE UserCreatedSuccessfully(id)

\* createUser: writeFile resolves, the id is returned and the tool answers
CreateUserWrite(p) ==
    /\ call[p].pc = "writeFile"
    /\ file' = WriteFile(file, JSONstringify(call[p].users))
    /\ call' = [call EXCEPT ![p] = Returned(Success(call[p].tool, call[p].id))]
    /\ created' = IF created.ok THEN [created EXCEPT !.calls = Append(@, call[p].user)] ELSE created
    /\ UNCHANGED <<host, prompted, readReq, readResult, resources, driverVars>>

(***************************************************************************)
(* Server: resource requests                                               *)
(***************************************************************************)
\* resources/read is handled: the first matching template's read handler runs
ServeRead ==
    /\ readReq # NoUri
    /\ readResult' = ReadResource(readReq, file)
    /\ readReq' = NoUri
    /\ UNCHANGED <<host, prompted, file, call, created, resources, driverVars>>

NotListed == [listed |-> FALSE, uris |-> <<>>]
Listed(uris) == [listed |-> TRUE, uris |-> uris]

(***************************************************************************)
(* Hosts                                                                   *)
(***************************************************************************)
\* the two hosts of the repository, and any other MCP host that spawns the
\* server over stdio
ClientTs == "src/client.ts"
FullClient == "build/server.js"
External == "external"
Hosts == {ClientTs, FullClient, External}

\* what the language model may answer: a body, bare or wrapped in fences
ModelTexts ==
    UNION {
        { <<b>>,
          <<"\n", b, " ">>,
          <<Fence, b, Fence>>,
          <<Fence, "json", "\n", b, "\n", Fence>>,
          <<" ", Fence, "JSON", " ", b, "\n", Fence, "\n">>,
          <<BodyProse, Fence, "json", "\n", b, "\n", Fence>> } : b \in Bodies }

\* what the backend of build/server.js answers the one sampling prompt
BackendTexts == {<<BodyFull>>, <<Fence, "json", "\n", BodyFull, "\n", Fence>>}

\* what any host may answer to sampling/createMessage
SamplingOutcomes ==
    {Rejected("MethodNotFound"), Rejected("BackendError"), ContentArrayNoText, ContentAbsent}
    \cup {ContentArray(t) : t \in ModelTexts}
    \cup {ContentObject(t) : t \in BackendTexts \cup {<<>>}}

\* texts.join("\n") for the one message of the request
Join(texts) == IF texts = <<>> THEN <<>> ELSE texts[1]

\* what generateText may do with the one sampling prompt: answer or fail
BackendError == <<"backend error">>
BackendOutcomes == BackendTexts \cup {BackendError}

\* mutant: generateText is called whatever the operator answers
HandleServerMessagePrompts_NoVeto(run, backend) ==
    IF backend = BackendError
    THEN [invoked |-> TRUE, threw |-> TRUE, texts |-> <<>>]
    ELSE [invoked |-> TRUE, threw |-> FALSE, texts |-> <<backend>>]

\* handleServerMessagePrompts on a text message: confirm; on a veto return
\* nothing, else call generateText and return its text (or throw with it).
\* texts is what the caller's `if (text != null) texts.push(text)` collects.
HandleServerMessagePrompts(run, backend) ==
    IF ~run
    THEN [invoked |-> FALSE, threw |-> FALSE, texts |-> <<>>]
    ELSE IF backend = BackendError
         THEN [invoked |-> TRUE, threw |-> TRUE, texts |-> <<>>]
         ELSE [invoked |-> TRUE, threw |-> FALSE, texts |-> <<backend>>]

\* the request handler of build/server.js for CreateMessageRequestSchema:
\* handleServerMessagePrompts on the one message of the request, and the
\* response built from the texts; a throw in the handler is answered with an
\* error response
FullClientSampling(p) ==
    /\ host = FullClient
    /\ \E run \in BOOLEAN, backend \in BackendOutcomes :
          LET m == HandleServerMessagePrompts(run, backend)
          IN  /\ SamplingSettles(p, IF m.threw THEN Rejected("BackendError")
                                               ELSE ContentObject(Join(m.texts)))
              /\ prompted' = [prompted EXCEPT ![p] = [run |-> IF run THEN "yes" ELSE "no",
                                                       invoked |-> m.invoked]]
    /\ UNCHANGED <<host, file, created, readReq, readResult, resources, driverVars>>

\* src/client.ts registers no handler for sampling/createMessage
ClientTsSampling(p) ==
    /\ host = ClientTs
    /\ SamplingSettles(p, Rejected("MethodNotFound"))
    /\ UNCHANGED <<host, prompted, file, created, readReq, readResult, resources, driverVars>>

\* another host answers the sampling request
ExternalSampling(p) ==
    /\ host = External
    /\ \E r \in SamplingOutcomes : SamplingSettles(p, r)
    /\ UNCHANGED <<host, prompted, file, created, readReq, readResult, resources, driverVars>>

\* no resources/read is pending or unconsumed. A read handler reads the file
\* in one step, so a read placed between two steps of the tool calls sees what
\* a read placed before or after them sees: the other host's reads are taken
\* between its tool calls, not during them.
Quiet == readReq = NoUri /\ readResult = NoResult

\* another host calls the tools, concurrently if it likes
ExternalCreateUser(p) ==
    /\ host = External
    /\ Quiet
    /\ \E args \in Candidates : CreateUserTool(p, args)
    /\ UNCHANGED <<host, file, readReq, readResult, resources, driverVars>>

ExternalCreateRandomUser(p) ==
    /\ host = External
    /\ Quiet
    /\ CreateRandomUserTool(p)
    /\ UNCHANGED <<host, file, readReq, readResult, resources, driverVars>>

\* id texts another host may put into users://{id}/profile
IdTexts == {"1", "2", "3", "02", "0", "abc"}
ExternalUris == {UsersAllUri, <<"users://", "/profile">>} \cup {ProfileUri(x) : x \in IdTexts}

\* another host reads a resource, between its tool calls
ExternalRead ==
    /\ host = External
    /\ Quiet
    /\ \A p \in Callers : call[p].pc \in {"idle", "returned"}
    /\ \E u \in ExternalUris : readReq' = u
    /\ readResult' = NoResult
    /\ UNCHANGED <<host, prompted, file, call, created, resources, driverVars>>

\* the host has taken the answer
ExternalReadDone ==
    /\ host = External
    /\ readReq = NoUri
    /\ readResult # NoResult
    /\ readResult' = NoResult
    /\ UNCHANGED <<host, prompted, file, call, created, readReq, resources, driverVars>>

(***************************************************************************)
(* Host driver: main() and its handlers                                    *)
(***************************************************************************)
Categories == {"Query", "Tools", "Resources", "Prompts"}

\* the case label the switch jumps to; src/client.ts has only two cases
CaseOf(h, o) ==
    IF o = "Tools" THEN "selectTool"
    ELSE IF o = "Resources" THEN "selectResource"
    ELSE IF h = ClientTs THEN "menu"
    ELSE IF o = "Prompts" THEN "selectPrompt"
    ELSE "query"

\* where control goes when a case's handler has returned: the cases have no
\* break, so it is the next case's first statement, and the loop head after
\* the last case
AfterTools(h) == "selectResource"
AfterResources(h) == IF h = ClientTs THEN "menu" ELSE "selectPrompt"
AfterPrompts(h) == "query"
AfterQuery(h) == "menu"

\* main() rejects: main().catch logs the error and the loop is over
Ended(why) == /\ dpc' = "ended"
              /\ endCause' = why

\* connect, then the four list requests
Discover ==
    /\ host # External
    /\ dpc = "connect"
    /\ resources' = Listed(ListResources(file))
    /\ dpc' = "menu"
    /\ UNCHANGED <<host, prompted, file, call, created, readReq, readResult, option, sent, uri, choice, paramValues, endCause>>

\* the top-level select
Menu ==
    /\ dpc = "menu"
    /\ \E o \in Categories :
          /\ option' = o
          /\ dpc' = CaseOf(host, o)
    /\ sent' = {}
    /\ UNCHANGED <<host, prompted, file, call, created, readReq, readResult, resources, uri, choice, paramValues, endCause>>

\* case "Tools": select a tool, handleTool collects its arguments and calls it
SelectTool ==
    /\ dpc = "selectTool"
    /\ \/ \E args \in Candidates : CreateUserTool(1, args)
       \/ CreateRandomUserTool(1)
    /\ sent' = sent \cup {"callTool"}
    /\ dpc' = "awaitTool"
    /\ UNCHANGED <<host, file, readReq, readResult, resources, option, uri, choice, paramValues, endCause>>

\* callTool resolves; the result is printed
ToolReturns ==
    /\ dpc = "awaitTool"
    /\ call[1].pc = "returned"
    /\ dpc' = AfterTools(host)
    /\ call' = [call EXCEPT ![1] = NoCall]
    /\ prompted' = [prompted EXCEPT ![1] = NotPrompted]
    /\ UNCHANGED <<host, file, created, readReq, readResult, resources, option, sent, uri, choice, paramValues, endCause>>

\* the choices of "Select a resource": value is res.uri, which a template
\* entry does not have
NoValue == <<"undefined">>
ChoiceValues == resources.uris \o [i \in 1..Len(ListResourceTemplates) |-> NoValue]

\* resources.find(t => t.uri === v)?.uri || resourceTemplates.find(t => t.uri === v)?.uriTemplate
ResolveChoice(v) ==
    IF \E i \in 1..Len(resources.uris) : resources.uris[i] = v THEN v
    ELSE IF v = NoValue THEN ListResourceTemplates[1]
    ELSE NoUri

\* case "Resources": select an entry and resolve it
SelectResource ==
    /\ dpc = "selectResource"
    /\ \E i \in 1..Len(ChoiceValues) :
          LET chosen == ResolveChoice(ChoiceValues[i])
          IN  IF chosen = NoUri
              THEN dpc' = "menu" /\ UNCHANGED <<uri, choice>>
              ELSE dpc' = "handleResource" /\ uri' = chosen /\ choice' = i
    /\ UNCHANGED <<host, prompted, file, call, created, readReq, readResult, resources, option, sent, paramValues, endCause>>

\* uri.match(/{([^}]+)}/g): the placeholder tokens of a URI, left to right
PlaceholderTokens == {"{id}", "{a}", "{b}"}
RECURSIVE ParamMatches(_)
ParamMatches(u) ==
    IF u = <<>> THEN <<>>
    ELSE IF Head(u) \in PlaceholderTokens THEN <<Head(u)>> \o ParamMatches(Tail(u))
         ELSE ParamMatches(Tail(u))

\* the replacement text of String.prototype.replace: "$&" stands for the match
RECURSIVE Expand(_, _)
Expand(replacement, match) ==
    IF replacement = <<>> THEN <<>>
    ELSE (IF Head(replacement) = "$&" THEN <<match>> ELSE <<Head(replacement)>>)
         \o Expand(Tail(replacement), match)

\* finalUri.replace(paramMatch, paramValue): the first occurrence only
ReplaceFirst(t, paramMatch, paramValue) ==
    IF \E i \in 1..Len(t) : t[i] = paramMatch
    THEN LET i == CHOOSE k \in 1..Len(t) : t[k] = paramMatch /\ \A j \in 1..(k-1) : t[j] # paramMatch
         IN  SubSeq(t, 1, i - 1) \o Expand(paramValue, paramMatch) \o SubSeq(t, i + 1, Len(t))
    ELSE t

\* the for loop of handleResource over paramMatches
RECURSIVE Substitute(_, _, _)
Substitute(finalUri, matches, values) ==
    IF matches = <<>> THEN finalUri
    ELSE Substitute(ReplaceFirst(finalUri, Head(matches), Head(values)), Tail(matches), Tail(values))

\* what the operator may type for a placeholder
ParamValues == {<<>>, <<"1">>, <<"abc">>, <<"{id}">>, <<"{a}">>, <<"{b}">>, <<"$&">>}

\* handleResource(uri): one input per placeholder, then readResource(finalUri)
HandleResource ==
    /\ dpc = "handleResource"
    /\ LET matches == ParamMatches(uri)
       IN  \E values \in [1..Len(matches) -> ParamValues] :
              /\ paramValues' = values
              /\ readReq' = Substitute(uri, matches, values)
    /\ readResult' = NoResult
    /\ sent' = sent \cup {"readResource"}
    /\ dpc' = "awaitRead"
    /\ UNCHANGED <<host, prompted, file, call, created, resources, option, uri, choice, endCause>>

\* readResource settles: a contents payload is printed; an error response
\* rejects the await, which nothing in main() catches
ReadReturns ==
    /\ dpc = "awaitRead"
    /\ readReq = NoUri
    /\ IF readResult.kind = "contents"
       THEN dpc' = AfterResources(host) /\ UNCHANGED endCause
       ELSE Ended("handler error")
    /\ uri' = NoUri
    /\ choice' = 0
    /\ paramValues' = <<>>
    /\ readResult' = NoResult
    /\ UNCHANGED <<host, prompted, file, call, created, readReq, resources, option, sent>>

\* case "Prompts": select the prompt; handlePrompt collects the argument and
\* calls getPrompt
SelectPrompt ==
    /\ dpc = "selectPrompt"
    /\ sent' = sent \cup {"getPrompt"}
    /\ dpc' = "promptMessage"
    /\ UNCHANGED <<host, prompted, file, call, created, readReq, readResult, resources, option, uri, choice, paramValues, endCause>>

\* handleServerMessagePrompts on the prompt's one message: confirm, then
\* generateText, whose failure nothing catches
PromptMessage ==
    /\ dpc = "promptMessage"
    /\ \E run \in BOOLEAN, fails \in BOOLEAN :
          IF run /\ fails
          THEN Ended("backend error")
          ELSE dpc' = AfterPrompts(host) /\ UNCHANGED endCause
    /\ UNCHANGED <<host, prompted, file, call, created, readReq, readResult, resources, option, sent, uri, choice, paramValues>>

\* case "Query": handleQuery reads the query and calls generateText with the tools
QueryStart ==
    /\ dpc = "query"
    /\ sent' = sent \cup {"query"}
    /\ dpc' = "awaitQuery"
    /\ UNCHANGED <<host, prompted, file, call, created, readReq, readResult, resources, option, uri, choice, paramValues, endCause>>

\* the model asks for a tool: execute calls mcp.callTool; the calls of one
\* step run concurrently
QueryToolCall(p) ==
    /\ dpc = "awaitQuery"
    /\ \/ \E args \in Candidates : CreateUserTool(p, args)
       \/ CreateRandomUserTool(p)
    /\ UNCHANGED <<host, file, readReq, readResult, resources, driverVars>>

\* generateText settles once the tool calls have: the answer is printed, or
\* the backend's failure rejects the await
QueryEnds ==
    /\ dpc = "awaitQuery"
    /\ \A p \in Callers : call[p].pc \in {"idle", "returned"}
    /\ \E fails \in BOOLEAN :
          IF fails
          THEN Ended("backend error")
          ELSE dpc' = AfterQuery(host) /\ UNCHANGED endCause
    /\ UNCHANGED <<host, prompted, file, call, created, readReq, readResult, resources, option, sent, uri, choice, paramValues>>

\* the server process or its pipes go away while a request is pending
TransportLost ==
    /\ dpc \in {"awaitTool", "awaitRead"}
    /\ Ended("transport")
    /\ UNCHANGED <<host, prompted, file, call, created, readReq, readResult, resources, option, sent, uri, choice, paramValues>>

(***************************************************************************)
(* Specifications                                                          *)
(***************************************************************************)
InitialFiles == {FileMissing, FileUnparsable, JsonText(<<>>)}

Init ==
    /\ host \in Hosts
    /\ file \in InitialFiles
    /\ call = [p \in Callers |-> NoCall]
    /\ created = [ok |-> file = JsonText(<<>>), calls |-> <<>>]
    /\ readReq = NoUri
    /\ readResult = NoResult
    /\ resources = NotListed
    /\ dpc = IF host = External THEN "none" ELSE "connect"
    /\ option = ""
    /\ sent = {}
    /\ uri = NoUri
    /\ choice = 0
    /\ paramValues = <<>>
    /\ endCause = ""
    /\ prompted = [p \in Callers |-> NotPrompted]

Next ==
    \/ \E p \in Callers :
          \/ ExternalCreateUser(p)
          \/ ExternalCreateRandomUser(p)
          \/ ExternalSampling(p)
          \/ FullClientSampling(p)
          \/ ClientTsSampling(p)
          \/ RandomUserContinue(p)
          \/ CreateUserRead(p)
          \/ CreateUserWrite(p)
          \/ QueryToolCall(p)
    \/ ServeRead
    \/ ExternalRead
    \/ ExternalReadDone
    \/ Discover
    \/ Menu
    \/ SelectTool
    \/ ToolReturns
    \/ SelectResource
    \/ HandleResource
    \/ ReadReturns
    \/ SelectPrompt
    \/ PromptMessage
    \/ QueryStart
    \/ QueryEnds
    \/ TransportLost

Spec == Init /\ [][Next]_vars

\* handleResource applied to the URIs and templates a server can advertise:
\* the state at the call handleResource(uri) in case "Resources"
TemplateInputs ==
    {UsersAllUri, ProfileUri("1"), ProfileTemplate,
     <<"x://", "{a}", "/", "{b}">>, <<"x://", "{a}", "/", "{a}">>}

InitHandleResource ==
    /\ host \in {ClientTs, FullClient}
    /\ file \in InitialFiles \cup {JSONstringify(<<NewUser(1, CandAnn)>>)}
    /\ call = [p \in Callers |-> NoCall]
    /\ created = [ok |-> FALSE, calls |-> <<>>]
    /\ readReq = NoUri
    /\ readResult = NoResult
    /\ resources = Listed(ListResources(file))
    /\ dpc = "handleResource"
    /\ option = "Resources"
    /\ sent = {}
    /\ uri \in TemplateInputs
    /\ choice = 0
    /\ paramValues = <<>>
    /\ endCause = ""
    /\ prompted = [p \in Callers |-> NotPrompted]

NextHandleResource ==
    \/ HandleResource
    \/ ServeRead
    \/ ReadReturns

SpecHandleResource == InitHandleResource /\ [][NextHandleResource]_vars

(***************************************************************************)
(* Properties                                                              *)
(***************************************************************************)
IsProfileUri(u) == Len(u) = 3 /\ u[1] = "users://" /\ u[3] = "/profile"

\* caller p's createUser performs its write in this step
Writes(p) == call[p].pc = "writeFile" /\ call'[p].pc = "returned"

\* C1: a createUser call that runs with no other writer between its read and
\* its write returns id = L + 1, L the length of the list it read, and a read
\* of users://<id>/profile after it returns exactly {id, name, email, password}
\* with the candidate's three fields.
C1_CreateThenGet ==
    [][\A p \in Callers :
          (Writes(p) /\ file = call[p].raw) =>
              LET id == call'[p].result.id
                  got == ReadResource(ProfileUri(ToStr(id)), file')
              IN  /\ id = Len(JSONparse(call[p].raw)) + 1
                  /\ got.kind = "contents"
                  /\ ~got.array
                  /\ got.doc[1] = <<Prop("id", Num(id)),
                                    Prop("name", GetProp(call[p].user, "name")),
                                    Prop("email", GetProp(call[p].user, "email")),
                                    Prop("password", GetProp(call[p].user, "password"))>>
                  /\ \A k \in {"name", "email", "password"} : IsString(GetProp(got.doc[1], k))]_vars

\* a second user has been created after a first, and is read back
C1_Witness ==
    /\ \E p \in Callers : call[p].pc = "returned" /\ call[p].result = CreatedUser(2)
    /\ ReadResource(ProfileUri("2"), file) = Contents(FALSE, <<NewUser(2, CandBob)>>)

\* C2: from the empty list, after N createUser calls made one after another,
\* users://all returns exactly N records, the i-th with id i and the fields
\* of the i-th call.
C2_SequentialList ==
    created.ok =>
        LET got == UsersRead(file)
            N == Len(created.calls)
        IN  /\ got.kind = "contents"
            /\ got.array
            /\ Len(got.doc) = N
            /\ \A i \in 1..N :
                  got.doc[i] = <<Prop("id", Num(i)),
                                 Prop("name", GetProp(created.calls[i], "name")),
                                 Prop("email", GetProp(created.calls[i], "email")),
                                 Prop("password", GetProp(created.calls[i], "password"))>>

\* two calls with different candidates have been made one after another
C2_Witness ==
    /\ created.ok
    /\ Len(created.calls) = 2
    /\ created.calls[1] # created.calls[2]
    /\ \A p \in Callers : ~InCreateUser(p)

\* both calls have read the same file content and neither has written
BothRead(p, q) ==
    /\ p # q
    /\ call[p].pc = "writeFile"
    /\ call[q].pc = "writeFile"
    /\ call[p].raw = call[q].raw

\* p is about to write; q, which read the content p read, has written its
\* record and returned
RacedBy(p, q) ==
    /\ p # q
    /\ call[p].pc = "writeFile"
    /\ call[q].pc = "returned"
    /\ call[q].result.id = call[p].id
    /\ file.kind = "json"
    /\ Len(file.doc) = Len(call[p].raw.doc) + 1
    /\ SubSeq(file.doc, 1, Len(call[p].raw.doc)) = call[p].raw.doc

\* C3: two overlapping createUser calls that both read the file before either
\* writes it compute the same id, list length + 1, and both return it; after
\* the second write the file holds the list that was read plus the second
\* writer's record only, so one id was handed to two callers and one record
\* is lost.
C3_RaceSameId ==
    /\ [](\A p, q \in Callers :
            BothRead(p, q) =>
                /\ call[p].id = call[q].id
                /\ call[p].id = Len(call[p].raw.doc) + 1)
    /\ [][\A p, q \in Callers :
            (RacedBy(p, q) /\ Writes(p)) =>
                /\ call'[p].result.id = call[q].result.id
                /\ file'.doc = Append(call[p].raw.doc, NewUser(call[p].id, call[p].user))
                /\ Len(file'.doc) = Len(file.doc)
                /\ Cardinality({i \in 1..Len(file'.doc) :
                                  GetProp(file'.doc[i], "id") = Num(call[p].id)}) = 1]_vars

\* both callers were told id 1 for different candidates and the file holds
\* one record
C3_Witness ==
    /\ call[1].pc = "returned"
    /\ call[2].pc = "returned"
    /\ call[1].result = CreatedUser(1)
    /\ call[2].result = CreatedUser(1)
    /\ file \in {JSONstringify(<<NewUser(1, CandAnn)>>), JSONstringify(<<NewUser(1, CandBob)>>)}

\* C4: on a readable store, a read of users://{id}/profile whose id text is
\* the number of no stored user (non-numeric texts included) is answered with
\* a contents payload whose text is {"error":"User not found"}: the handler
\* does not throw, and the file is left as it was.
C4_NotFoundIsData ==
    [][(/\ readReq # NoUri
        /\ readReq' = NoUri
        /\ IsProfileUri(readReq)
        /\ readReq[2] # ""
        /\ file.kind = "json"
        /\ \A i \in 1..Len(file.doc) : ~StrictEq(GetProp(file.doc[i], "id"), NumberOf(readReq[2])))
       => /\ readResult' = Contents(FALSE, <<UserNotFound>>)
          /\ file' = file]_vars

\* a non-numeric id was read on a store that holds users
C4_Witness ==
    /\ host = External
    /\ readResult = Contents(FALSE, <<UserNotFound>>)
    /\ file.kind = "json"
    /\ Len(file.doc) = 2

\* the parsed model output lacks one of the three fields, or holds a non-string
LacksField(v) ==
    \/ v.t = "null"
    \/ \E k \in {"name", "email", "password"} :
          \/ \A i \in 1..Len(v.o) : v.o[i].k # k
          \/ \E i \in 1..Len(v.o) : v.o[i].k = k /\ v.o[i].v.t # "string"

\* the create-random-user handler resumes after the sampling request
Resumes(p) == call[p].pc = "gotResponse" /\ call'[p].pc # "gotResponse"

\* C5: in create-random-user, a model text that parses as JSON but lacks a
\* string name, email or password makes the tool return the required-fields
\* error; createUser is not entered and the file is unchanged.
C5_MissingFieldNotPersisted ==
    [][\A p \in Callers :
          (/\ Resumes(p)
           /\ HasModelText(call[p].response)
           /\ ParseModelJson(Clean(call[p].response.text)) # NotJson
           /\ LacksField(ParseModelJson(Clean(call[p].response.text))))
          => /\ call'[p] = Returned(MissingRequiredFields)
             /\ file' = file]_vars

\* the required-fields error was returned while the store holds a user
C5_Witness ==
    /\ \E p \in Callers : call[p].pc = "returned" /\ call[p].result = MissingRequiredFields
    /\ file.kind = "json"
    /\ Len(file.doc) = 1

\* C6: in create-random-user, when the sampling request is rejected (the
\* backend failed, or the host registered no sampling handler) the tool
\* returns the text "Model call failed: ..." as an ordinary result, and the
\* file is unchanged.
C6_ModelFailureIsToolText ==
    [][\A p \in Callers :
          (Resumes(p) /\ call[p].response.shape = "rejected")
          => /\ call'[p] = Returned(ModelCallFailed)
             /\ file' = file]_vars

\* src/client.ts, which registers no sampling handler, is waiting on the call
\* and the tool has answered
C6_Witness ==
    /\ host = ClientTs
    /\ dpc = "awaitTool"
    /\ call[1] = Returned(ModelCallFailed)

\* C7: the driver loop is not ended by a handler-level failure (a read
\* handler that throws, a backend failure in a prompt or a query): only the
\* loss of the transport ends it.
C7_OnlyTransportEndsLoop ==
    dpc = "ended" => endCause = "transport"

\* the Session call and the sub-menu of each category
SessionCallOf(o) ==
    IF o = "Tools" THEN "callTool"
    ELSE IF o = "Resources" THEN "readResource"
    ELSE IF o = "Prompts" THEN "getPrompt"
    ELSE "query"
PromptOf(o) ==
    IF o = "Tools" THEN {"selectTool"}
    ELSE IF o = "Resources" THEN {"selectResource", "handleResource"}
    ELSE IF o = "Prompts" THEN {"selectPrompt", "promptMessage"}
    ELSE {"query"}

\* C8: in an iteration of the driver loop only the Session call of the
\* selected category is issued, and the operator is prompted only for that
\* category before the top-level menu comes back.
C8_OnlySelectedCategory ==
    /\ \A k \in sent : k = SessionCallOf(option)
    /\ dpc \in {"selectTool", "selectResource", "handleResource", "selectPrompt",
                "promptMessage", "query"} => dpc \in PromptOf(option)

\* C9: handleResource sends no readResource request when the operator gave an
\* empty value for a placeholder of the URI.
C9_EmptyValueNotSent ==
    (\E i \in 1..Len(paramValues) : paramValues[i] = <<>>)
        => /\ readReq = NoUri
           /\ "readResource" \notin sent

\* C10: every resources/list answer holds at least one concrete URI for each
\* template-backed resource, users and get-user, whatever the file holds.
C10_ListingNeverEmpty ==
    resources.listed =>
        /\ \E i \in 1..Len(resources.uris) : resources.uris[i] = UsersAllUri
        /\ \E i \in 1..Len(resources.uris) : IsProfileUri(resources.uris[i])

\* the JSON texts with a string name, email and password
ValidBodies == {b \in Bodies : BodyValue(b).t = "object" /\ ~LacksField(BodyValue(b))}

\* text t is J between an opening fence (with or without a json tag) and a
\* closing fence, with or without whitespace around the fences and around J
IsFenced(t, b) ==
    \E i, j \in 1..Len(t) :
        /\ i < j
        /\ t[i] = Fence
        /\ t[j] = Fence
        /\ \A k \in 1..(i - 1) \cup (j + 1)..Len(t) : t[k] \in Whitespace
        /\ \E m \in (i + 1)..(j - 1) :
              /\ t[m] = b
              /\ \A k \in (i + 1)..(m - 1) :
                    t[k] \in Whitespace \/ (k = i + 1 /\ t[k] \in JsonTags)
              /\ \A k \in (m + 1)..(j - 1) : t[k] \in Whitespace

\* C11: in create-random-user, for every valid JSON text J with string name,
\* email and password, a model response that is J wrapped in fences (with or
\* without a json tag and surrounding whitespace) is parsed to the user that
\* J alone is parsed to, createUser is entered with that user, and the record
\* written is that user's record under the id createUser computed.
C11_FencedParsesAsBare ==
    /\ [][\A p \in Callers :
            (Resumes(p) /\ HasModelText(call[p].response)) =>
                \A b \in ValidBodies :
                    IsFenced(call[p].response.text, b)
                    => /\ RandomUserCheck(call[p].response) = RandomUserCheck(ContentArray(<<b>>))
                       /\ call'[p].pc = "readFile"
                       /\ call'[p].user = ParseModelJson(Clean(<<b>>)).o
                       /\ call'[p].user = BodyValue(b).o
                       /\ file' = file]_vars
    /\ [][\A p \in Callers :
            (Writes(p) /\ call[p].tool = "create-random-user") =>
                \A b \in ValidBodies :
                    (IsFenced(call[p].response.text, b) \/ call[p].response.text = <<b>>)
                    => /\ file'.kind = "json"
                       /\ file'.doc = Append(JSONparse(call[p].raw), NewUser(call[p].id, BodyValue(b).o))
                       /\ call'[p].result = UserCreatedSuccessfully(call[p].id)]_vars

\* a response with whitespace, an upper-case tag and fences around the JSON
\* whose keys are in another order has been persisted as the first user
C11_Witness ==
    \E p \in Callers :
        /\ call[p].pc = "writeFile"
        /\ call[p].response = ContentArray(<<" ", Fence, "JSON", " ", BodyReordered, "\n", Fence, "\n">>)
        /\ call[p].user = BodyValue(BodyReordered).o
        /\ call[p].users = <<NewUser(1, BodyValue(BodyReordered).o)>>

\* the uri or uriTemplate of each entry of "Select a resource", in the order
\* displayed: the concrete resources, then the templates
ChoiceEntries == resources.uris \o ListResourceTemplates

\* C12: in the Resources action the URI passed to handleResource is the uri
\* or uriTemplate of the entry the operator selected, never that of another
\* entry; selecting the second template reads the second template.
C12_SelectedEntryIsRead ==
    dpc = "handleResource" /\ choice # 0 => uri = ChoiceEntries[choice]

\* the template with its i-th placeholder, left to right, replaced by the
\* i-th value as it was typed
RECURSIVE LiteralSubstitution(_, _)
LiteralSubstitution(template, values) ==
    IF template = <<>> THEN <<>>
    ELSE IF Head(template) \in PlaceholderTokens /\ values # <<>>
         THEN Head(values) \o LiteralSubstitution(Tail(template), Tail(values))
         ELSE <<Head(template)>> \o LiteralSubstitution(Tail(template), values)

\* C13: handleResource asks for exactly one value per placeholder of the
\* template, left to right, and the URI it sends to readResource is the
\* template with each placeholder replaced literally by its value, also for
\* values that contain text of the form {name} and for templates that
\* repeat a placeholder.
C13_LiteralSubstitution ==
    (dpc = "awaitRead" /\ readReq # NoUri) =>
        /\ Len(paramValues) = Len(ParamMatches(uri))
        /\ readReq = LiteralSubstitution(uri, paramValues)

\* C14: when build/server.js receives the sampling request of
\* create-random-user and the operator vetoes its message, generateText is
\* not called, the host answers with one text block whose text is empty, and
\* the tool call ends with the no-text error without entering createUser:
\* nothing is written.
C14_VetoedSampling ==
    /\ [](\A p \in Callers :
            prompted[p].run = "no" =>
                /\ ~prompted[p].invoked
                /\ call[p].pc \in {"gotResponse", "returned"}
                /\ call[p].pc = "gotResponse" => call[p].response = ContentObject(<<>>)
                /\ call[p].pc = "returned" => call[p].result = NoTextReturned)
    /\ [][\A p \in Callers :
            (prompted[p].run = "no" /\ Resumes(p))
            => /\ call'[p] = Returned(NoTextReturned)
               /\ file' = file]_vars

\* the operator asked for create-random-user, vetoed the prompt, and the
\* tool has answered; the store still holds its one user
C14_Witness ==
    /\ host = FullClient
    /\ dpc = "awaitTool"
    /\ prompted[1] = [run |-> "no", invoked |-> FALSE]
    /\ call[1] = Returned(NoTextReturned)
    /\ file = JSONstringify(<<NewUser(1, CandAnn)>>)

====
